---- MODULE Spec2Model ----
(***************************************************************************)
(* Local Backbone Router service (src/core/backbone_router/bbr_local.cpp). *)
(*                                                                         *)
(* The instance under study is held in the variables named after the       *)
(* fields of BackboneRouter::Local; the collaborators whose state it        *)
(* depends on (network data service store, on-mesh prefix table, time      *)
(* ticker, netif unicast addresses) are held in the remaining variables,   *)
(* and the calls to the others (notifier, backbone multicast transport,    *)
(* domain prefix callback) are in the log of calls.  Every handler is one  *)
(* action; the handler's body is a pure operator over a record of the      *)
(* node (fields + collaborator slots + the log of the calls it made), so   *)
(* that nested calls compose as in the source.                             *)
(***************************************************************************)
EXTENDS Integers, Sequences, FiniteSets, TLC

VARIABLES
    mState,                 \* kStateDisabled / kStateSecondary / kStatePrimary
    mMlrTimeout,
    mReregistrationDelay,
    mRegistrationTimeout,
    mSequenceNumber,
    mIsServiceAdded,
    mDomainPrefixConfig,    \* the stored prefix; 0 is "length 0" (none stored)
    service,                \* this node's Backbone Router service record in the store
    onMeshPrefixes,         \* on-mesh prefixes this node has in local network data
    tickReceiver,           \* TimeTicker::kBbrLocal is registered
    alocInstalled,          \* the Primary ALOC is on the netif
    mBackboneRouterPrimaryAloc, \* the mesh-local prefix in the Primary ALOC
    mAllNetworkBackboneRouters, \* the prefix in the multicast address; 0: cleared
    mAllDomainBackboneRouters,  \* the same, of the domain multicast address
    meshLocalPrefix,        \* Mle::GetMeshLocalPrefix()
    attached,               \* Mle::IsAttached()
    leaderConfig,           \* BackboneRouter::Leader: the holder and its record
    peer,                   \* a second node running the same controller
    faults,                 \* removals of a present record the store may still refuse
    armed,                  \* the last arming of the countdown and the ticks since
    pendingUpdate,          \* nodes the leader tracker has yet to notify of its holder
    updateOutcome,          \* what each node made of the last update delivered to it
    killed,                 \* the process of this node was killed in an operation
    op,                     \* the operation that produced this state
    calls                   \* the calls that operation made, in order

vars == << mState, mMlrTimeout, mReregistrationDelay, mRegistrationTimeout,
           mSequenceNumber, mIsServiceAdded, mDomainPrefixConfig, service,
           onMeshPrefixes, tickReceiver, alocInstalled,
           mBackboneRouterPrimaryAloc, mAllNetworkBackboneRouters,
           mAllDomainBackboneRouters, meshLocalPrefix, attached,
           leaderConfig, peer, faults, armed, pendingUpdate, updateOutcome,
           killed, op, calls >>

(***************************************************************************)
(* Program constants.  The numbers are those of the headers the file       *)
(* includes (bbr_local.hpp, mle_types.hpp, mac_types.hpp):                 *)
(* kDefaultMlrTimeout = Mle::kMlrTimeoutDefault, kMinMlrTimeout =          *)
(* Mle::kMlrTimeoutMin, kMaxMlrTimeout = Mle::kMlrTimeoutMax               *)
(* (0x7fffffff / 1000), Mac::kShortAddrInvalid = 0xfffe.                   *)
(***************************************************************************)
kStateDisabled  == "Disabled"
kStateSecondary == "Secondary"
kStatePrimary   == "Primary"

kDecideBasedOnState == "DecideBasedOnState"
kForceRegistration  == "ForceRegistration"

kErrorNone         == "None"
kErrorInvalidState == "InvalidState"
kErrorInvalidArgs  == "InvalidArgs"
kErrorNotFound     == "NotFound"
kErrorNoBufs       == "NoBufs"

kEventThreadBackboneRouterStateChanged == "BackboneRouterStateChanged"
kEventThreadBackboneRouterLocalChanged == "BackboneRouterLocalChanged"

kDefaultMlrTimeout         == 3600
kMinMlrTimeout             == 300
kMaxMlrTimeout             == 2147483
kDefaultRegistrationDelay  == 5
kDefaultRegistrationJitter == 5
kShortAddrInvalid          == 65534
kSeqInitModulus            == 127

\* OPENTHREAD_CONFIG_REFERENCE_DEVICE_ENABLE of the build being modelled.
ReferenceDevice == FALSE

(***************************************************************************)
(* Bounds of the model.                                                    *)
(***************************************************************************)
MaxPrefix   == 2    \* domain prefixes are 1..MaxPrefix
MaxFaults   == 1    \* removals the store refuses in one behaviour
MaxMeshLocalPrefix == 2 \* mesh-local prefixes are 1..MaxMeshLocalPrefix

\* The nodes of the two-node system; the instance under study is node 1.
Nodes == {1, 2}

Rloc16(i)  == 1024 * i
SelfRloc16 == Rloc16(1)
PeerRloc16 == Rloc16(2)

Prefixes == 1..MaxPrefix

MeshLocalPrefixes == 1..MaxMeshLocalPrefix

NoService == [present |-> FALSE, seq |-> 0, delay |-> 0, mlr |-> 0]

NoConfig  == [server16 |-> kShortAddrInvalid, seq |-> 0, delay |-> 0, mlr |-> 0]

\* BackboneRouter::Leader::GetServer16()
leaderServer16 == leaderConfig.server16

(***************************************************************************)
(* The log of calls an operation makes.  A call is logged with the mode    *)
(* or action it was given, the error it returned and its integer           *)
(* arguments or result.                                                    *)
(***************************************************************************)
Call(name, mode, error, args) ==
    [call |-> name, mode |-> mode, error |-> error, args |-> args]

Log(n, c) == [n EXCEPT !.calls = Append(@, c)]

Signal(n, event) == Log(n, Call("Signal", event, kErrorNone, <<>>))

BoolArg(b) == IF b THEN 1 ELSE 0

(***************************************************************************)
(* Collaborators that are not part of bbr_local.cpp.                       *)
(***************************************************************************)
\* BackboneRouter::Leader::HasPrimary(): a holder is recorded.
HasPrimary(server16) == server16 # kShortAddrInvalid

\* NetworkData::Service::Manager::Add<BackboneRouter>(serverData) on this
\* node's slot of the store; e.pubOk is whether the store accepts it.
ServiceAddError(e) == IF e.pubOk THEN kErrorNone ELSE kErrorNoBufs

\* NetworkData::Service::Manager::Remove<BackboneRouter>(): kErrorNotFound
\* when the node has no record; e.wdOk is whether the store accepts it.
ServiceRemoveError(n, e) ==
    IF ~n.service.present THEN kErrorNotFound
    ELSE IF e.wdOk THEN kErrorNone ELSE kErrorNoBufs

(***************************************************************************)
(* Local::SequenceNumberIncrease, on the 8-bit value.                      *)
(***************************************************************************)
\* The increment without its two wraparound cases.
SeqIncreasePlain(s) == (s + 1) % 256

SeqIncrease(s) ==
    CASE s \in {126, 127} -> 0
      [] s \in {254, 255} -> 128
      [] OTHER            -> (s + 1) % 256

SequenceNumberIncrease(n) ==
    [n EXCEPT !.mSequenceNumber = SeqIncrease(@)]

(***************************************************************************)
(* Local::SetState                                                         *)
(***************************************************************************)
\* SetState without its first line, VerifyOrExit(mState != aState).
SetStateUnguarded(n, aState) ==
    LET m == IF n.mState = kStateDisabled
             THEN [n EXCEPT !.mAllNetworkBackboneRouters = n.meshLocalPrefix]
             ELSE n
        a == IF m.mState = kStatePrimary
             THEN Log([m EXCEPT !.alocInstalled = FALSE],
                      Call("RemoveUnicastAddress", "", kErrorNone,
                           <<m.mBackboneRouterPrimaryAloc>>))
             ELSE IF aState = kStatePrimary
             THEN Log([m EXCEPT !.mBackboneRouterPrimaryAloc = m.meshLocalPrefix,
                                !.alocInstalled = TRUE],
                      Call("AddUnicastAddress", "", kErrorNone,
                           <<m.meshLocalPrefix>>))
             ELSE m
    IN Signal([a EXCEPT !.mState = aState],
              kEventThreadBackboneRouterStateChanged)

SetState(n, aState) ==
    IF n.mState = aState THEN n
    ELSE
        LET m == IF n.mState = kStateDisabled
                 THEN [n EXCEPT !.mAllNetworkBackboneRouters = n.meshLocalPrefix]
                 ELSE n
            a == IF m.mState = kStatePrimary
                 THEN Log([m EXCEPT !.alocInstalled = FALSE],
                          Call("RemoveUnicastAddress", "", kErrorNone,
                               <<m.mBackboneRouterPrimaryAloc>>))
                 ELSE IF aState = kStatePrimary
                 THEN Log([m EXCEPT !.mBackboneRouterPrimaryAloc = m.meshLocalPrefix,
                                    !.alocInstalled = TRUE],
                          Call("AddUnicastAddress", "", kErrorNone,
                               <<m.meshLocalPrefix>>))
                 ELSE m
        IN Signal([a EXCEPT !.mState = aState],
                  kEventThreadBackboneRouterStateChanged)

(***************************************************************************)
(* Local::AddService and Local::RemoveService                              *)
(***************************************************************************)
\* AddService without the IsAttached() half of its first check.
AddServiceErrorIgnoresAttach(n, e, aMode) ==
    IF ~(n.mState # kStateDisabled) THEN kErrorInvalidState
    ELSE IF aMode = kDecideBasedOnState
            /\ ~(~HasPrimary(e.leaderServer16) \/ e.leaderServer16 = e.rloc16)
    THEN kErrorInvalidState
    ELSE ServiceAddError(e)

\* AddService without the mState half of its first check.
AddServiceErrorIgnoresState(n, e, aMode) ==
    IF ~e.attached THEN kErrorInvalidState
    ELSE IF aMode = kDecideBasedOnState
            /\ ~(~HasPrimary(e.leaderServer16) \/ e.leaderServer16 = e.rloc16)
    THEN kErrorInvalidState
    ELSE ServiceAddError(e)

AddServiceError(n, e, aMode) ==
    IF ~(n.mState # kStateDisabled /\ e.attached) THEN kErrorInvalidState
    ELSE IF aMode = kDecideBasedOnState
            /\ ~(~HasPrimary(e.leaderServer16) \/ e.leaderServer16 = e.rloc16)
    THEN kErrorInvalidState
    ELSE ServiceAddError(e)

ServerData(n) ==
    [present |-> TRUE, seq |-> n.mSequenceNumber,
     delay |-> n.mReregistrationDelay, mlr |-> n.mMlrTimeout]

\* AddService setting mIsServiceAdded before it knows the store's answer.
AddServiceOptimistic(n, e, aMode) ==
    LET error == AddServiceError(n, e, aMode)
        data  == ServerData(n)
        add   == Call("ServiceAdd", "", ServiceAddError(e),
                      <<data.seq, data.delay, data.mlr>>)
        done  == Call("AddService", aMode, error, <<>>)
    IN  IF error = kErrorInvalidState
        THEN Log(n, done)
        ELSE IF error # kErrorNone
        THEN Log(Log([n EXCEPT !.mIsServiceAdded = TRUE], add), done)
        ELSE Log(Log(Log([n EXCEPT !.service = data, !.mIsServiceAdded = TRUE],
                         add),
                     Call("HandleServerDataUpdated", "", kErrorNone, <<>>)),
                 done)

AddService(n, e, aMode) ==
    LET error == AddServiceError(n, e, aMode)
        data  == ServerData(n)
        add   == Call("ServiceAdd", "", ServiceAddError(e),
                      <<data.seq, data.delay, data.mlr>>)
        done  == Call("AddService", aMode, error, <<>>)
    IN  IF error = kErrorInvalidState
        THEN Log(n, done)
        ELSE IF error # kErrorNone
        THEN Log(Log(n, add), done)
        ELSE Log(Log(Log([n EXCEPT !.service = data, !.mIsServiceAdded = TRUE],
                         add),
                     Call("HandleServerDataUpdated", "", kErrorNone, <<>>)),
                 done)

RemoveService(n, e) ==
    LET error  == ServiceRemoveError(n, e)
        remove == Call("ServiceRemove", "", error, <<>>)
    IN  IF error # kErrorNone
        THEN Log(n, remove)
        ELSE Log(Log([n EXCEPT !.service = NoService, !.mIsServiceAdded = FALSE],
                     remove),
                 Call("HandleServerDataUpdated", "", kErrorNone, <<>>))

(***************************************************************************)
(* Domain prefix mirror in local network data.                             *)
(***************************************************************************)
AddDomainPrefixToNetworkData(n) ==
    IF n.mDomainPrefixConfig > 0
    THEN Log([n EXCEPT !.onMeshPrefixes = @ \cup {n.mDomainPrefixConfig}],
             Call("AddOnMeshPrefix", "", kErrorNone, <<n.mDomainPrefixConfig>>))
    ELSE n

\* RemoveDomainPrefixFromNetworkData testing the wrong length: it never removes.
RemoveDomainPrefixSkipped(n) ==
    IF n.mDomainPrefixConfig < 0
    THEN Log([n EXCEPT !.onMeshPrefixes = @ \ {n.mDomainPrefixConfig}],
             Call("RemoveOnMeshPrefix", "", kErrorNone, <<n.mDomainPrefixConfig>>))
    ELSE n

RemoveDomainPrefixFromNetworkData(n) ==
    IF n.mDomainPrefixConfig > 0
    THEN Log([n EXCEPT !.onMeshPrefixes = @ \ {n.mDomainPrefixConfig}],
             Call("RemoveOnMeshPrefix", "",
                  IF n.mDomainPrefixConfig \in n.onMeshPrefixes
                  THEN kErrorNone ELSE kErrorNotFound,
                  <<n.mDomainPrefixConfig>>))
    ELSE n

(***************************************************************************)
(* Local::SetEnabled and Local::Reset                                      *)
(***************************************************************************)
IsEnabled(n) == n.mState # kStateDisabled

\* SetEnabled without its first line, VerifyOrExit(aEnable != IsEnabled()).
SetEnabledUnguarded(n, e, aEnable) ==
    IF aEnable
    THEN AddService(AddDomainPrefixToNetworkData(SetState(n, kStateSecondary)),
                    e, kDecideBasedOnState)
    ELSE SetState(RemoveService(RemoveDomainPrefixFromNetworkData(n), e),
                  kStateDisabled)

SetEnabled(n, e, aEnable) ==
    IF aEnable = IsEnabled(n) THEN n
    ELSE IF aEnable
    THEN AddService(AddDomainPrefixToNetworkData(SetState(n, kStateSecondary)),
                    e, kDecideBasedOnState)
    ELSE SetState(RemoveService(RemoveDomainPrefixFromNetworkData(n), e),
                  kStateDisabled)

\* Reset without its RemoveService() call.
ResetKeepsService(n, e) ==
    IF n.mState = kStateDisabled THEN n
    ELSE IF n.mState = kStatePrimary
    THEN SetState(Signal(SequenceNumberIncrease(n),
                         kEventThreadBackboneRouterLocalChanged),
                  kStateSecondary)
    ELSE n

\* Reset increasing the sequence number whatever the role was.
ResetAlwaysIncrease(n, e) ==
    IF n.mState = kStateDisabled THEN n
    ELSE SetState(Signal(SequenceNumberIncrease(RemoveService(n, e)),
                         kEventThreadBackboneRouterLocalChanged),
                  kStateSecondary)

\* Reset leaving a Primary in its role after withdrawing its service.
ResetKeepsRole(n, e) ==
    IF n.mState = kStateDisabled THEN n
    ELSE
        LET r == RemoveService(n, e)
        IN  IF r.mState = kStatePrimary
            THEN Signal(SequenceNumberIncrease(r),
                        kEventThreadBackboneRouterLocalChanged)
            ELSE r

Reset(n, e) ==
    IF n.mState = kStateDisabled THEN n
    ELSE
        LET r == RemoveService(n, e)
        IN  IF r.mState = kStatePrimary
            THEN SetState(Signal(SequenceNumberIncrease(r),
                                 kEventThreadBackboneRouterLocalChanged),
                          kStateSecondary)
            ELSE r

(***************************************************************************)
(* Local::SetConfig                                                        *)
(***************************************************************************)
\* SetConfig comparing with <= where the source has <.
SetConfigErrorOffByOne(aConfig) ==
    IF ~ReferenceDevice
       /\ ~(aConfig.mlr >= kMinMlrTimeout /\ aConfig.mlr <= kMaxMlrTimeout)
    THEN kErrorInvalidArgs
    ELSE IF ~(aConfig.delay >= 1) THEN kErrorInvalidArgs
    ELSE IF ~(aConfig.delay * 2 <= aConfig.mlr) THEN kErrorInvalidArgs
    ELSE kErrorNone

SetConfigError(aConfig) ==
    IF ~ReferenceDevice
       /\ ~(aConfig.mlr >= kMinMlrTimeout /\ aConfig.mlr <= kMaxMlrTimeout)
    THEN kErrorInvalidArgs
    ELSE IF ~(aConfig.delay >= 1) THEN kErrorInvalidArgs
    ELSE IF ~(aConfig.delay * 2 < aConfig.mlr) THEN kErrorInvalidArgs
    ELSE kErrorNone

SetConfig(n, e, aConfig) ==
    IF SetConfigError(aConfig) # kErrorNone THEN n
    ELSE
        LET update == \/ aConfig.delay # n.mReregistrationDelay
                      \/ aConfig.mlr # n.mMlrTimeout
                      \/ aConfig.seq # n.mSequenceNumber
            m == [n EXCEPT !.mReregistrationDelay = aConfig.delay,
                           !.mMlrTimeout = aConfig.mlr,
                           !.mSequenceNumber = aConfig.seq]
        IN  IF update
            THEN AddService(Signal(m, kEventThreadBackboneRouterLocalChanged),
                            e, kDecideBasedOnState)
            ELSE n

(***************************************************************************)
(* Local::HandleBackboneRouterPrimaryUpdate                                *)
(***************************************************************************)
\* The update handler adding the new delay to the pending countdown.
PrimaryUpdateAccumulates(n, e, aConfig) ==
    IF ~(IsEnabled(n) /\ e.attached) THEN n
    ELSE IF aConfig.server16 = kShortAddrInvalid
    THEN
        LET q == Log(n, Call("IsLeader", "", kErrorNone, <<BoolArg(e.isLeader)>>))
            r == IF ~e.isLeader
                 THEN Log([q EXCEPT !.mRegistrationTimeout = @ + 1 + e.rnd],
                          Call("GetUint16InRange", "", kErrorNone, <<e.rnd>>))
                 ELSE [q EXCEPT !.mRegistrationTimeout = @ + 1]
        IN  Log([r EXCEPT !.tickReceiver = TRUE],
                Call("RegisterReceiver", "", kErrorNone, <<>>))
    ELSE IF aConfig.server16 # e.rloc16
    THEN Reset(n, e)
    ELSE IF ~n.mIsServiceAdded
    THEN
        LET m == [n EXCEPT !.mSequenceNumber = aConfig.seq,
                           !.mReregistrationDelay = aConfig.delay,
                           !.mMlrTimeout = aConfig.mlr]
        IN  AddService(Signal(SequenceNumberIncrease(m),
                              kEventThreadBackboneRouterLocalChanged),
                       e, kForceRegistration)
    ELSE SetState(n, kStatePrimary)

\* The update handler entering Primary without looking at mIsServiceAdded.
PrimaryUpdatePromotesUnpublished(n, e, aConfig) ==
    IF ~(IsEnabled(n) /\ e.attached) THEN n
    ELSE IF aConfig.server16 = kShortAddrInvalid
    THEN
        LET q == Log(n, Call("IsLeader", "", kErrorNone, <<BoolArg(e.isLeader)>>))
            r == IF ~e.isLeader
                 THEN Log([q EXCEPT !.mRegistrationTimeout = 1 + e.rnd],
                          Call("GetUint16InRange", "", kErrorNone, <<e.rnd>>))
                 ELSE [q EXCEPT !.mRegistrationTimeout = 1]
        IN  Log([r EXCEPT !.tickReceiver = TRUE],
                Call("RegisterReceiver", "", kErrorNone, <<>>))
    ELSE IF aConfig.server16 # e.rloc16
    THEN Reset(n, e)
    ELSE SetState(n, kStatePrimary)

\* The update handler restoring its service in kDecideBasedOnState mode.
PrimaryUpdateRestoreDecides(n, e, aConfig) ==
    IF ~(IsEnabled(n) /\ e.attached) THEN n
    ELSE IF aConfig.server16 = kShortAddrInvalid
    THEN
        LET q == Log(n, Call("IsLeader", "", kErrorNone, <<BoolArg(e.isLeader)>>))
            r == IF ~e.isLeader
                 THEN Log([q EXCEPT !.mRegistrationTimeout = 1 + e.rnd],
                          Call("GetUint16InRange", "", kErrorNone, <<e.rnd>>))
                 ELSE [q EXCEPT !.mRegistrationTimeout = 1]
        IN  Log([r EXCEPT !.tickReceiver = TRUE],
                Call("RegisterReceiver", "", kErrorNone, <<>>))
    ELSE IF aConfig.server16 # e.rloc16
    THEN Reset(n, e)
    ELSE IF ~n.mIsServiceAdded
    THEN
        LET m == [n EXCEPT !.mSequenceNumber = aConfig.seq,
                           !.mReregistrationDelay = aConfig.delay,
                           !.mMlrTimeout = aConfig.mlr]
        IN  AddService(Signal(SequenceNumberIncrease(m),
                              kEventThreadBackboneRouterLocalChanged),
                       e, kDecideBasedOnState)
    ELSE SetState(n, kStatePrimary)

\* The update handler running Reset only when mIsServiceAdded is set.
PrimaryUpdateResetIfAdded(n, e, aConfig) ==
    IF ~(IsEnabled(n) /\ e.attached) THEN n
    ELSE IF aConfig.server16 = kShortAddrInvalid
    THEN
        LET q == Log(n, Call("IsLeader", "", kErrorNone, <<BoolArg(e.isLeader)>>))
            r == IF ~e.isLeader
                 THEN Log([q EXCEPT !.mRegistrationTimeout = 1 + e.rnd],
                          Call("GetUint16InRange", "", kErrorNone, <<e.rnd>>))
                 ELSE [q EXCEPT !.mRegistrationTimeout = 1]
        IN  Log([r EXCEPT !.tickReceiver = TRUE],
                Call("RegisterReceiver", "", kErrorNone, <<>>))
    ELSE IF aConfig.server16 # e.rloc16
    THEN IF n.mIsServiceAdded THEN Reset(n, e) ELSE n
    ELSE IF ~n.mIsServiceAdded
    THEN
        LET m == [n EXCEPT !.mSequenceNumber = aConfig.seq,
                           !.mReregistrationDelay = aConfig.delay,
                           !.mMlrTimeout = aConfig.mlr]
        IN  AddService(Signal(SequenceNumberIncrease(m),
                              kEventThreadBackboneRouterLocalChanged),
                       e, kForceRegistration)
    ELSE SetState(n, kStatePrimary)

HandleBackboneRouterPrimaryUpdate(n, e, aConfig) ==
    IF ~(IsEnabled(n) /\ e.attached) THEN n
    ELSE IF aConfig.server16 = kShortAddrInvalid
    THEN
        LET q == Log(n, Call("IsLeader", "", kErrorNone, <<BoolArg(e.isLeader)>>))
            r == IF ~e.isLeader
                 THEN Log([q EXCEPT !.mRegistrationTimeout = 1 + e.rnd],
                          Call("GetUint16InRange", "", kErrorNone, <<e.rnd>>))
                 ELSE [q EXCEPT !.mRegistrationTimeout = 1]
        IN  Log([r EXCEPT !.tickReceiver = TRUE],
                Call("RegisterReceiver", "", kErrorNone, <<>>))
    ELSE IF aConfig.server16 # e.rloc16
    THEN Reset(n, e)
    ELSE IF ~n.mIsServiceAdded
    THEN
        LET m == [n EXCEPT !.mSequenceNumber = aConfig.seq,
                           !.mReregistrationDelay = aConfig.delay,
                           !.mMlrTimeout = aConfig.mlr]
        IN  AddService(Signal(SequenceNumberIncrease(m),
                              kEventThreadBackboneRouterLocalChanged),
                       e, kForceRegistration)
    ELSE SetState(n, kStatePrimary)

(***************************************************************************)
(* Local::HandleTimeTick                                                   *)
(***************************************************************************)
\* HandleTimeTick attempting registration on every tick of the countdown.
HandleTimeTickEveryTick(n, e) ==
    LET q == Log(n, Call("GetRouterSelectionJitterTimeout", "", kErrorNone,
                         <<e.rsJitter>>))
        a == IF e.rsJitter = 0 /\ q.mRegistrationTimeout > 0
             THEN AddService([q EXCEPT !.mRegistrationTimeout = @ - 1],
                             e, kDecideBasedOnState)
             ELSE q
    IN  IF a.mRegistrationTimeout = 0
        THEN Log([a EXCEPT !.tickReceiver = FALSE],
                 Call("UnregisterReceiver", "", kErrorNone, <<>>))
        ELSE a

\* HandleTimeTick counting down whatever the router selection jitter is.
HandleTimeTickIgnoresJitter(n, e) ==
    LET q == Log(n, Call("GetRouterSelectionJitterTimeout", "", kErrorNone,
                         <<e.rsJitter>>))
        a == IF q.mRegistrationTimeout > 0
             THEN LET d == [q EXCEPT !.mRegistrationTimeout = @ - 1]
                  IN  IF d.mRegistrationTimeout = 0
                      THEN AddService(d, e, kDecideBasedOnState)
                      ELSE d
             ELSE q
    IN  IF a.mRegistrationTimeout = 0
        THEN Log([a EXCEPT !.tickReceiver = FALSE],
                 Call("UnregisterReceiver", "", kErrorNone, <<>>))
        ELSE a

\* HandleTimeTick without the unregistration on its exit path.
HandleTimeTickKeepsReceiver(n, e) ==
    LET q == Log(n, Call("GetRouterSelectionJitterTimeout", "", kErrorNone,
                         <<e.rsJitter>>))
    IN  IF e.rsJitter = 0 /\ q.mRegistrationTimeout > 0
        THEN LET d == [q EXCEPT !.mRegistrationTimeout = @ - 1]
             IN  IF d.mRegistrationTimeout = 0
                 THEN AddService(d, e, kDecideBasedOnState)
                 ELSE d
        ELSE q

HandleTimeTick(n, e) ==
    LET q == Log(n, Call("GetRouterSelectionJitterTimeout", "", kErrorNone,
                         <<e.rsJitter>>))
        a == IF e.rsJitter = 0 /\ q.mRegistrationTimeout > 0
             THEN LET d == [q EXCEPT !.mRegistrationTimeout = @ - 1]
                  IN  IF d.mRegistrationTimeout = 0
                      THEN AddService(d, e, kDecideBasedOnState)
                      ELSE d
             ELSE q
    IN  IF a.mRegistrationTimeout = 0
        THEN Log([a EXCEPT !.tickReceiver = FALSE],
                 Call("UnregisterReceiver", "", kErrorNone, <<>>))
        ELSE a

(***************************************************************************)
(* Local::GetDomainPrefix, RemoveDomainPrefix, SetDomainPrefix.  A prefix  *)
(* configuration is its prefix (0: length 0) and whether                   *)
(* OnMeshPrefixConfig::IsValid accepts it.                                 *)
(***************************************************************************)
GetDomainPrefixError(n) ==
    IF n.mDomainPrefixConfig > 0 THEN kErrorNone ELSE kErrorNotFound

\* The configuration GetDomainPrefix copies out when it returns no error.
GetDomainPrefix(n) ==
    IF GetDomainPrefixError(n) = kErrorNone THEN n.mDomainPrefixConfig ELSE 0

\* RemoveDomainPrefix without its check of the length of aPrefix.
RemoveDomainPrefixErrorNoLengthCheck(n, aPrefix) ==
    IF n.mDomainPrefixConfig # aPrefix THEN kErrorNotFound
    ELSE kErrorNone

RemoveDomainPrefixError(n, aPrefix) ==
    IF ~(aPrefix > 0) THEN kErrorInvalidArgs
    ELSE IF n.mDomainPrefixConfig # aPrefix THEN kErrorNotFound
    ELSE kErrorNone

RemoveDomainPrefix(n, aPrefix) ==
    IF RemoveDomainPrefixError(n, aPrefix) # kErrorNone THEN n
    ELSE
        LET r == IF IsEnabled(n) THEN RemoveDomainPrefixFromNetworkData(n) ELSE n
        IN  [r EXCEPT !.mDomainPrefixConfig = 0]

SetDomainPrefixError(aConfig) ==
    IF aConfig.valid THEN kErrorNone ELSE kErrorInvalidArgs

SetDomainPrefix(n, aConfig) ==
    IF SetDomainPrefixError(aConfig) # kErrorNone THEN n
    ELSE
        LET r == IF IsEnabled(n) THEN RemoveDomainPrefixFromNetworkData(n) ELSE n
            s == [r EXCEPT !.mDomainPrefixConfig = aConfig.prefix]
        IN  IF IsEnabled(s) THEN AddDomainPrefixToNetworkData(s) ELSE s

(***************************************************************************)
(* Local::ApplyMeshLocalPrefix.  Mle has set the mesh-local prefix         *)
(* (n.meshLocalPrefix) before it calls this.                               *)
(***************************************************************************)
\* ApplyMeshLocalPrefix adding the new address without removing the old.
ApplyMeshLocalPrefixNoRemove(n) ==
    IF ~IsEnabled(n) THEN n
    ELSE
        LET u == Log(n, Call("UnsubscribeMulticast", "", kErrorNone,
                             <<n.mAllNetworkBackboneRouters>>))
            w == Log([u EXCEPT !.mAllNetworkBackboneRouters = u.meshLocalPrefix],
                     Call("SubscribeMulticast", "", kErrorNone,
                          <<u.meshLocalPrefix>>))
        IN  IF w.mState = kStatePrimary
            THEN Log([w EXCEPT !.mBackboneRouterPrimaryAloc = w.meshLocalPrefix,
                               !.alocInstalled = TRUE],
                     Call("AddUnicastAddress", "", kErrorNone,
                          <<w.meshLocalPrefix>>))
            ELSE w

ApplyMeshLocalPrefix(n) ==
    IF ~IsEnabled(n) THEN n
    ELSE
        LET u == Log(n, Call("UnsubscribeMulticast", "", kErrorNone,
                             <<n.mAllNetworkBackboneRouters>>))
            w == Log([u EXCEPT !.mAllNetworkBackboneRouters = u.meshLocalPrefix],
                     Call("SubscribeMulticast", "", kErrorNone,
                          <<u.meshLocalPrefix>>))
        IN  IF w.mState = kStatePrimary
            THEN
                LET r == Log([w EXCEPT !.alocInstalled = FALSE],
                             Call("RemoveUnicastAddress", "", kErrorNone,
                                  <<w.mBackboneRouterPrimaryAloc>>))
                IN  Log([r EXCEPT !.mBackboneRouterPrimaryAloc = r.meshLocalPrefix,
                                  !.alocInstalled = TRUE],
                        Call("AddUnicastAddress", "", kErrorNone,
                             <<r.meshLocalPrefix>>))
            ELSE w

(***************************************************************************)
(* Local::HandleDomainPrefixUpdate.  e.domainPrefix is the prefix          *)
(* Leader::GetDomainPrefix() points at (0: a null pointer) and             *)
(* e.callbackSet is mDomainPrefixCallback.IsSet(); the callback is logged  *)
(* with the event it is given and that prefix.  The result is the set of   *)
(* the outcomes of the call: one, unless line 399 dereferences a null      *)
(* pointer.  That is undefined behaviour: the process is killed there,     *)
(* the calls made before it made, or the read yields some prefix and the   *)
(* handler goes on with it.                                                *)
(***************************************************************************)
kDomainPrefixAdded     == "DomainPrefixAdded"
kDomainPrefixRemoved   == "DomainPrefixRemoved"
kDomainPrefixRefreshed == "DomainPrefixRefreshed"
kDomainPrefixUnchanged == "DomainPrefixUnchanged"

\* The Domain Prefix the leader holds when it holds one.
LeaderDomainPrefixes == {1}

\* What a read through a null pointer can yield, when it yields a prefix.
UndefinedPrefixes == {0} \cup LeaderDomainPrefixes

\* The call returned and left the node as n; the process was killed during
\* the call, the node being as n.
Returned(n) == [killed |-> FALSE, node |-> n]
KilledAt(n) == [killed |-> TRUE, node |-> n]

\* The event the callback is given for aEvent.
DomainPrefixCallbackEvent(aEvent) ==
    CASE aEvent = kDomainPrefixAdded     -> "OT_BACKBONE_ROUTER_DOMAIN_PREFIX_ADDED"
      [] aEvent = kDomainPrefixRemoved   -> "OT_BACKBONE_ROUTER_DOMAIN_PREFIX_REMOVED"
      [] aEvent = kDomainPrefixRefreshed -> "OT_BACKBONE_ROUTER_DOMAIN_PREFIX_CHANGED"
      [] OTHER                           -> ""

HandleDomainPrefixUpdate(n, e, aEvent) ==
    IF ~IsEnabled(n) THEN {Returned(n)}
    ELSE
        LET u == IF aEvent \in {kDomainPrefixRemoved, kDomainPrefixRefreshed}
                 THEN Log(n, Call("UnsubscribeMulticast", "", kErrorNone,
                                  <<n.mAllDomainBackboneRouters>>))
                 ELSE n
            \* lines 399-400, the dereference having read aPrefix
            Subscribed(aPrefix) ==
                Log([u EXCEPT !.mAllDomainBackboneRouters = aPrefix],
                    Call("SubscribeMulticast", "", kErrorNone, <<aPrefix>>))
            \* lines 403-419
            Notified(w) ==
                IF e.callbackSet /\ DomainPrefixCallbackEvent(aEvent) # ""
                THEN Log(w, Call("DomainPrefixCallback",
                                 DomainPrefixCallbackEvent(aEvent), kErrorNone,
                                 <<e.domainPrefix>>))
                ELSE w
        IN  IF aEvent \notin {kDomainPrefixAdded, kDomainPrefixRefreshed}
            THEN {Returned(Notified(u))}
            ELSE IF e.domainPrefix # 0
            THEN {Returned(Notified(Subscribed(e.domainPrefix)))}
            ELSE {KilledAt(u)}
                 \cup { Returned(Notified(Subscribed(aPrefix))) :
                            aPrefix \in UndefinedPrefixes }

(***************************************************************************)
(* The state machine.                                                      *)
(***************************************************************************)
Self ==
    [mState |-> mState, mMlrTimeout |-> mMlrTimeout,
     mReregistrationDelay |-> mReregistrationDelay,
     mRegistrationTimeout |-> mRegistrationTimeout,
     mSequenceNumber |-> mSequenceNumber, mIsServiceAdded |-> mIsServiceAdded,
     mDomainPrefixConfig |-> mDomainPrefixConfig, service |-> service,
     onMeshPrefixes |-> onMeshPrefixes, tickReceiver |-> tickReceiver,
     alocInstalled |-> alocInstalled,
     mBackboneRouterPrimaryAloc |-> mBackboneRouterPrimaryAloc,
     mAllNetworkBackboneRouters |-> mAllNetworkBackboneRouters,
     mAllDomainBackboneRouters |-> mAllDomainBackboneRouters,
     meshLocalPrefix |-> meshLocalPrefix,
     calls |-> << >>]

Commit(n) ==
    /\ ~killed
    /\ mState' = n.mState
    /\ mMlrTimeout' = n.mMlrTimeout
    /\ mReregistrationDelay' = n.mReregistrationDelay
    /\ mRegistrationTimeout' = n.mRegistrationTimeout
    /\ mSequenceNumber' = n.mSequenceNumber
    /\ mIsServiceAdded' = n.mIsServiceAdded
    /\ mDomainPrefixConfig' = n.mDomainPrefixConfig
    /\ service' = n.service
    /\ onMeshPrefixes' = n.onMeshPrefixes
    /\ tickReceiver' = n.tickReceiver
    /\ alocInstalled' = n.alocInstalled
    /\ mBackboneRouterPrimaryAloc' = n.mBackboneRouterPrimaryAloc
    /\ mAllNetworkBackboneRouters' = n.mAllNetworkBackboneRouters
    /\ mAllDomainBackboneRouters' = n.mAllDomainBackboneRouters
    /\ meshLocalPrefix' = n.meshLocalPrefix
    /\ calls' = n.calls

\* What the collaborators answer during one operation of this node.
Env(pubOk, wdOk, isLeader, rnd, rsJitter) ==
    [rloc16 |-> SelfRloc16, attached |-> attached,
     leaderServer16 |-> leaderServer16, pubOk |-> pubOk, wdOk |-> wdOk,
     isLeader |-> isLeader, rnd |-> rnd, rsJitter |-> rsJitter]

Op(name, node) ==
    [name |-> name, node |-> node, enable |-> FALSE, config |-> NoConfig,
     prefix |-> 0, valid |-> FALSE, error |-> kErrorNone]

NotArmed == [n |-> 0, ticks |-> 0, attempts |-> 0]

\* No update has been delivered to any node.
NoOutcome == [k \in Nodes |-> "None"]

\* The store refuses the removal of a record it holds while refusals are left.
WithdrawOutcomes == IF faults > 0 THEN BOOLEAN ELSE {TRUE}

\* Local::Local: the state after construction.  The sequence number is
\* GetUint8() % 127.
InitSequenceNumbers == 0..(kSeqInitModulus - 1)

NewLocal(seq) ==
    [mState |-> kStateDisabled, mMlrTimeout |-> kDefaultMlrTimeout,
     mReregistrationDelay |-> kDefaultRegistrationDelay,
     mRegistrationTimeout |-> 0, mSequenceNumber |-> seq,
     mIsServiceAdded |-> FALSE, mDomainPrefixConfig |-> 0,
     service |-> NoService, onMeshPrefixes |-> {}, tickReceiver |-> FALSE,
     alocInstalled |-> FALSE, mBackboneRouterPrimaryAloc |-> 0,
     mAllNetworkBackboneRouters |-> 0, mAllDomainBackboneRouters |-> 0,
     meshLocalPrefix |-> 1, calls |-> << >>]

\* The second node of the two-node system, and its absence elsewhere.
Peer(n) == [n EXCEPT !.calls = << >>] @@ [attached |-> FALSE]

NoPeer == << >>

\* Inputs.
Config(s, d, m) == [server16 |-> kShortAddrInvalid, seq |-> s, delay |-> d, mlr |-> m]

\* An accepted and a rejected configuration.
SetConfigInputs ==
    { Config(126, 1, kMinMlrTimeout),
      Config(0, 0, kDefaultMlrTimeout) }

\* A configuration that differs from the defaults in its sequence number,
\* and a rejected one.
SequenceConfigInputs ==
    { Config(126, kDefaultRegistrationDelay, kDefaultMlrTimeout),
      Config(0, 0, kDefaultMlrTimeout) }

\* Every combination around the limits SetConfig checks.
SetConfigGrid ==
    { Config(s, d, m) :
        s \in {0, 127}, d \in {0, 1, 149, 150},
        m \in {kMinMlrTimeout - 1, kMinMlrTimeout, kMaxMlrTimeout,
               kMaxMlrTimeout + 1} }

\* What the leader reports when it names rloc16 as the holder.
RestoredConfig(rloc16) ==
    [server16 |-> rloc16, seq |-> 126, delay |-> 5, mlr |-> 3600]

RestoredConfigs(rloc16) ==
    { RestoredConfig(rloc16),
      [server16 |-> rloc16, seq |-> 255, delay |-> 10, mlr |-> 300] }

\* The leader reports this node, another node, or nobody.
PrimaryUpdateInputs(rloc16, other) ==
    { RestoredConfig(rloc16) }
      \cup { [NoConfig EXCEPT !.server16 = a] : a \in {kShortAddrInvalid, other} }

\* The leader reports a holder, this node or another.
HolderUpdateInputs(rloc16, other) ==
    { RestoredConfig(rloc16), [NoConfig EXCEPT !.server16 = other] }

\* The same, reporting this node with either record.
RestoringUpdateInputs(rloc16, other) ==
    RestoredConfigs(rloc16) \cup { [NoConfig EXCEPT !.server16 = other] }

JitterInputs == 0..kDefaultRegistrationJitter

InitSelf(n) ==
    /\ mState = n.mState
    /\ mMlrTimeout = n.mMlrTimeout
    /\ mReregistrationDelay = n.mReregistrationDelay
    /\ mRegistrationTimeout = n.mRegistrationTimeout
    /\ mSequenceNumber = n.mSequenceNumber
    /\ mIsServiceAdded = n.mIsServiceAdded
    /\ mDomainPrefixConfig = n.mDomainPrefixConfig
    /\ service = n.service
    /\ onMeshPrefixes = n.onMeshPrefixes
    /\ tickReceiver = n.tickReceiver
    /\ alocInstalled = n.alocInstalled
    /\ mBackboneRouterPrimaryAloc = n.mBackboneRouterPrimaryAloc
    /\ mAllNetworkBackboneRouters = n.mAllNetworkBackboneRouters
    /\ mAllDomainBackboneRouters = n.mAllDomainBackboneRouters
    /\ meshLocalPrefix = n.meshLocalPrefix
    /\ calls = n.calls

Init ==
    /\ \E seq \in InitSequenceNumbers : InitSelf(NewLocal(seq))
    /\ attached = FALSE
    /\ leaderConfig = NoConfig
    /\ peer = NoPeer
    /\ faults = 0
    /\ armed = NotArmed
    /\ pendingUpdate = {}
    /\ updateOutcome = NoOutcome
    /\ killed = FALSE
    /\ op = Op("Local", 1)

world == << attached, leaderConfig, peer, faults, armed, pendingUpdate,
           updateOutcome, killed >>

\* An input is drawn only where the operation reads it.
Only(used, S, unused) == IF used THEN S ELSE {unused}

\* The store has one refusal less after refusing a removal.
Refusal ==
    faults' = IF \E i \in DOMAIN calls' : /\ calls'[i].call = "ServiceRemove"
                                          /\ calls'[i].error = kErrorNoBufs
              THEN faults - 1 ELSE faults

CallSetEnabled ==
    \E aEnable \in BOOLEAN :
    \E pubOk \in Only(aEnable /\ ~IsEnabled(Self), BOOLEAN, TRUE),
       wdOk \in Only(~aEnable /\ IsEnabled(Self), WithdrawOutcomes, TRUE) :
        /\ Commit(SetEnabled(Self, Env(pubOk, wdOk, FALSE, 0, 0), aEnable))
        /\ op' = [Op("SetEnabled", 1) EXCEPT !.enable = aEnable]
        /\ Refusal
        /\ UNCHANGED << attached, leaderConfig, peer, armed, pendingUpdate,
                        updateOutcome, killed >>

CallReset ==
    \E wdOk \in WithdrawOutcomes :
        /\ Commit(Reset(Self, Env(FALSE, wdOk, FALSE, 0, 0)))
        /\ op' = Op("Reset", 1)
        /\ Refusal
        /\ UNCHANGED << attached, leaderConfig, peer, armed, pendingUpdate,
                        updateOutcome, killed >>

SetConfigStep(inputs) ==
    \E aConfig \in inputs :
    \E pubOk \in Only(SetConfigError(aConfig) = kErrorNone, BOOLEAN, TRUE) :
        /\ Commit(SetConfig(Self, Env(pubOk, TRUE, FALSE, 0, 0), aConfig))
        /\ op' = [Op("SetConfig", 1) EXCEPT !.config = aConfig,
                                            !.error = SetConfigError(aConfig)]
        /\ UNCHANGED world

CallSetConfig == SetConfigStep(SetConfigInputs)

CallSetConfigGrid == SetConfigStep(SetConfigGrid)

CallSetSequenceNumber == SetConfigStep(SequenceConfigInputs)

\* The leader's update, reporting one of inputs; a node that is not the
\* leader draws its jitter.
StepHandleBackboneRouterPrimaryUpdate(inputs) ==
    \E aConfig \in inputs :
    \E pubOk \in Only(aConfig.server16 = SelfRloc16, BOOLEAN, TRUE),
       wdOk \in Only(aConfig.server16 = PeerRloc16, WithdrawOutcomes, TRUE),
       isLeader \in Only(aConfig.server16 = kShortAddrInvalid, BOOLEAN, TRUE) :
    \E rnd \in Only(~isLeader, JitterInputs, 0) :
        /\ Commit(HandleBackboneRouterPrimaryUpdate(
                      Self, Env(pubOk, wdOk, isLeader, rnd, 0), aConfig))
        /\ op' = [Op("HandleBackboneRouterPrimaryUpdate", 1)
                    EXCEPT !.config = aConfig]
        /\ Refusal
        /\ UNCHANGED << attached, leaderConfig, peer, pendingUpdate, updateOutcome, killed >>

CallHandleBackboneRouterPrimaryUpdate ==
    /\ StepHandleBackboneRouterPrimaryUpdate(
           PrimaryUpdateInputs(SelfRloc16, PeerRloc16))
    /\ UNCHANGED armed

\* A leader update that reports a holder, this node or another.
CallHolderUpdate ==
    /\ StepHandleBackboneRouterPrimaryUpdate(
           HolderUpdateInputs(SelfRloc16, PeerRloc16))
    /\ UNCHANGED armed

CallRestoringUpdate ==
    /\ StepHandleBackboneRouterPrimaryUpdate(
           RestoringUpdateInputs(SelfRloc16, PeerRloc16))
    /\ UNCHANGED armed

StepHandleTimeTick ==
    \E rsJitter \in {0, 1} :
    \E pubOk \in Only(rsJitter = 0 /\ mRegistrationTimeout = 1, BOOLEAN, TRUE) :
        /\ Commit(HandleTimeTick(Self, Env(pubOk, TRUE, FALSE, 0, rsJitter)))
        /\ op' = Op("HandleTimeTick", 1)
        /\ UNCHANGED << attached, leaderConfig, peer, faults, pendingUpdate,
                        updateOutcome, killed >>

CallHandleTimeTick == StepHandleTimeTick /\ UNCHANGED armed

\* The same two handlers, keeping count, with every jitter the node can
\* draw: an update that arms the countdown notes its value; a tick made while
\* the router selection jitter is zero is counted (up to the armed value)
\* with the registrations it attempted.
CountedHandleBackboneRouterPrimaryUpdate ==
    /\ StepHandleBackboneRouterPrimaryUpdate(
           PrimaryUpdateInputs(SelfRloc16, PeerRloc16))
    /\ armed' = IF \E i \in DOMAIN calls' : calls'[i].call = "RegisterReceiver"
                THEN [n |-> mRegistrationTimeout', ticks |-> 0, attempts |-> 0]
                ELSE armed

CountedHandleTimeTick ==
    /\ StepHandleTimeTick
    /\ armed' = IF armed.n > 0 /\ calls'[1].args = << 0 >>
                THEN [armed EXCEPT
                        !.ticks = IF @ < armed.n THEN @ + 1 ELSE @,
                        !.attempts = @ + Cardinality({ i \in DOMAIN calls' :
                                           calls'[i].call = "AddService" })]
                ELSE armed

DomainPrefixInputs ==
    { [prefix |-> p, valid |-> v] : p \in {0} \cup Prefixes, v \in BOOLEAN }

CallSetDomainPrefix ==
    \E aConfig \in DomainPrefixInputs :
        /\ Commit(SetDomainPrefix(Self, aConfig))
        /\ op' = [Op("SetDomainPrefix", 1)
                    EXCEPT !.prefix = aConfig.prefix, !.valid = aConfig.valid,
                           !.error = SetDomainPrefixError(aConfig)]
        /\ UNCHANGED world

CallRemoveDomainPrefix ==
    \E aPrefix \in {0} \cup Prefixes :
        /\ Commit(RemoveDomainPrefix(Self, aPrefix))
        /\ op' = [Op("RemoveDomainPrefix", 1)
                    EXCEPT !.prefix = aPrefix,
                           !.error = RemoveDomainPrefixError(Self, aPrefix)]
        /\ UNCHANGED world

CallGetDomainPrefix ==
    /\ Commit(Self)
    /\ op' = [Op("GetDomainPrefix", 1)
                EXCEPT !.prefix = GetDomainPrefix(Self),
                       !.error = GetDomainPrefixError(Self)]
    /\ UNCHANGED world

\* Mle takes the mesh-local prefix aPrefix and applies it.
CallApplyMeshLocalPrefix ==
    \E aPrefix \in MeshLocalPrefixes :
        /\ Commit(ApplyMeshLocalPrefix([Self EXCEPT !.meshLocalPrefix = aPrefix]))
        /\ op' = [Op("ApplyMeshLocalPrefix", 1) EXCEPT !.prefix = aPrefix]
        /\ UNCHANGED world

\* The leader reports a change of its Domain Prefix, which it holds unless
\* the event is its removal; the host may have set a callback by then.
CallHandleDomainPrefixUpdate ==
    \E aEvent \in {kDomainPrefixAdded, kDomainPrefixRemoved,
                   kDomainPrefixRefreshed, kDomainPrefixUnchanged} :
    \E p \in Only(aEvent \in {kDomainPrefixAdded, kDomainPrefixRefreshed},
                   LeaderDomainPrefixes, 0),
       callbackSet \in Only(aEvent # kDomainPrefixUnchanged, BOOLEAN, FALSE) :
    \E r \in HandleDomainPrefixUpdate(
                 Self, [domainPrefix |-> p, callbackSet |-> callbackSet],
                 aEvent) :
        /\ Commit(r.node)
        /\ killed' = r.killed
        /\ op' = [Op("HandleDomainPrefixUpdate", 1) EXCEPT !.prefix = p]
        /\ UNCHANGED << attached, leaderConfig, peer, faults, armed,
                        pendingUpdate, updateOutcome >>

\* Mle attaches to or detaches from the mesh.
AttachChange ==
    /\ attached' = ~attached
    /\ op' = Op("AttachChange", 1)
    /\ Commit(Self)
    /\ UNCHANGED << leaderConfig, peer, faults, armed, pendingUpdate,
                    updateOutcome, killed >>

\* Mle attaches to the mesh.
Attach ==
    /\ ~attached
    /\ attached' = TRUE
    /\ op' = Op("AttachChange", 1)
    /\ Commit(Self)
    /\ UNCHANGED << leaderConfig, peer, faults, armed, pendingUpdate,
                    updateOutcome, killed >>

\* The leader tracker records another holder, or none.
LeaderChange ==
    \E a \in {kShortAddrInvalid, SelfRloc16, PeerRloc16} :
        /\ a # leaderServer16
        /\ leaderConfig' = [NoConfig EXCEPT !.server16 = a]
        /\ op' = Op("LeaderChange", 1)
        /\ Commit(Self)
        /\ UNCHANGED << attached, peer, faults, armed, pendingUpdate,
                        updateOutcome, killed >>

\* The role state machine: every handler but the domain prefix ones, the
\* tracker recording no holder.
Next ==
    \/ CallSetEnabled
    \/ CallReset
    \/ CallSetConfig
    \/ CallHandleBackboneRouterPrimaryUpdate
    \/ CallHandleTimeTick
    \/ AttachChange

Spec == Init /\ [][Next]_vars

\* The handlers that write the service record, against a store that may
\* also refuse to withdraw a record it holds, the tracker recording no holder.
NextFaults ==
    \/ CallSetEnabled
    \/ CallReset
    \/ CallSetConfig
    \/ CallHolderUpdate
    \/ AttachChange

InitFaults ==
    /\ \E seq \in InitSequenceNumbers : InitSelf(NewLocal(seq))
    /\ attached = FALSE
    /\ leaderConfig = NoConfig
    /\ peer = NoPeer
    /\ faults = MaxFaults
    /\ armed = NotArmed
    /\ pendingUpdate = {}
    /\ updateOutcome = NoOutcome
    /\ killed = FALSE
    /\ op = Op("Local", 1)

SpecFaults == InitFaults /\ [][NextFaults]_vars

\* The role state machine of a node that stays attached, against a store
\* that may also refuse to withdraw a record it holds, the tracker recording
\* no holder.
NextPrimary ==
    \/ CallSetEnabled
    \/ CallReset
    \/ CallSetSequenceNumber
    \/ CallHandleBackboneRouterPrimaryUpdate
    \/ CallHandleTimeTick
    \/ Attach

SpecPrimary == InitFaults /\ [][NextPrimary]_vars

\* The callers of AddService in either mode, against every holder the
\* tracker can record.
NextService ==
    \/ CallSetEnabled
    \/ CallSetConfig
    \/ CallHolderUpdate
    \/ AttachChange
    \/ LeaderChange

SpecService == Init /\ [][NextService]_vars

\* Reset and the leader updates that report a holder.
NextHolder ==
    \/ CallSetEnabled
    \/ CallReset
    \/ CallRestoringUpdate
    \/ AttachChange
    \/ LeaderChange

SpecHolder == Init /\ [][NextHolder]_vars

\* The same, against a store that may also refuse to withdraw a record it
\* holds.
SpecHolderFaults == InitFaults /\ [][NextHolder]_vars

\* The Primary ALOC and the two multicast addresses across role changes and
\* changes of the mesh-local prefix and of the Domain Prefix.
NextAloc ==
    \/ CallSetEnabled
    \/ CallReset
    \/ CallHolderUpdate
    \/ CallApplyMeshLocalPrefix
    \/ CallHandleDomainPrefixUpdate
    \/ AttachChange

SpecAloc == Init /\ [][NextAloc]_vars

\* The domain prefix store.
NextPrefix ==
    \/ CallSetEnabled
    \/ CallHolderUpdate
    \/ CallSetDomainPrefix
    \/ CallRemoveDomainPrefix
    \/ CallGetDomainPrefix
    \/ AttachChange

SpecPrefix == Init /\ [][NextPrefix]_vars

\* SetConfig over the grid of configurations.
NextConfig ==
    \/ CallSetEnabled
    \/ CallSetConfigGrid
    \/ AttachChange

SpecConfig == Init /\ [][NextConfig]_vars

\* The countdown: arming, ticks and what else happens meanwhile.
NextTick ==
    \/ CallSetEnabled
    \/ CallReset
    \/ CountedHandleBackboneRouterPrimaryUpdate
    \/ CountedHandleTimeTick
    \/ AttachChange

SpecTick == Init /\ [][NextTick]_vars

\* The sequence counter over every 8-bit value: SetConfig has stored the
\* sequence number s in a new instance, and the counter is increased.
SeqInputs == 0..255

InitSeq ==
    /\ \E seq \in InitSequenceNumbers, s \in SeqInputs :
           LET aConfig == Config(s, kDefaultRegistrationDelay, kDefaultMlrTimeout)
           IN  /\ InitSelf(SetConfig(NewLocal(seq),
                                     [rloc16 |-> SelfRloc16, attached |-> FALSE,
                                      leaderServer16 |-> kShortAddrInvalid,
                                      pubOk |-> TRUE, wdOk |-> TRUE,
                                      isLeader |-> FALSE, rnd |-> 0,
                                      rsJitter |-> 0],
                                     aConfig))
               /\ op = [Op("SetConfig", 1) EXCEPT !.config = aConfig]
    /\ attached = FALSE
    /\ leaderConfig = NoConfig
    /\ peer = NoPeer
    /\ faults = 0
    /\ armed = NotArmed
    /\ pendingUpdate = {}
    /\ updateOutcome = NoOutcome
    /\ killed = FALSE

CallSequenceNumberIncrease ==
    /\ Commit(SequenceNumberIncrease(Self))
    /\ op' = Op("SequenceNumberIncrease", 1)
    /\ UNCHANGED world

NextSeq == CallSequenceNumberIncrease

SpecSeq == InitSeq /\ [][NextSeq]_vars

(***************************************************************************)
(* Two nodes, each running this controller, against one network-data       *)
(* store (the service slots of the two nodes) and one leader tracker.      *)
(* The tracker follows the store: it records as holder a node that has a   *)
(* record, or nobody, and then notifies each node, which handles the       *)
(* update when it is delivered.  At the start it records nobody and that   *)
(* first notification is still to be handled by each node.  The events     *)
(* are those of two nodes starting up: attaching, being enabled, leader    *)
(* updates and ticks.  The store may refuse to withdraw a record it holds. *)
(***************************************************************************)
Node(k) == IF k = 1 THEN Self @@ [attached |-> attached] ELSE peer

Put(k, n) ==
    IF k = 1
    THEN Commit(n) /\ UNCHANGED << attached, peer >>
    ELSE /\ peer' = [n EXCEPT !.calls = << >>]
         /\ calls' = n.calls
         /\ UNCHANGED << mState, mMlrTimeout, mReregistrationDelay,
                         mRegistrationTimeout, mSequenceNumber, mIsServiceAdded,
                         mDomainPrefixConfig, service, onMeshPrefixes,
                         tickReceiver, alocInstalled,
                         mBackboneRouterPrimaryAloc, mAllNetworkBackboneRouters,
                         mAllDomainBackboneRouters,
                         meshLocalPrefix, attached >>

NodeEnv(k, pubOk, wdOk, isLeader, rnd, rsJitter) ==
    [rloc16 |-> Rloc16(k), attached |-> Node(k).attached,
     leaderServer16 |-> leaderServer16, pubOk |-> pubOk, wdOk |-> wdOk,
     isLeader |-> isLeader, rnd |-> rnd, rsJitter |-> rsJitter]

\* What node n made of an update, given the calls cs it made: it ignored it
\* (Disabled or detached), the store refused its Withdraw, or neither.
Outcome(n, cs) ==
    IF ~(IsEnabled(n) /\ n.attached) THEN "Ignored"
    ELSE IF \E i \in DOMAIN cs : /\ cs[i].call = "ServiceRemove"
                                 /\ cs[i].error = kErrorNoBufs
    THEN "Refused"
    ELSE "Handled"

\* The holders the tracker can record: the nodes with a record in the store.
Publishers == { k \in Nodes : Node(k).service.present }

\* The configuration the tracker records for holder k: k's record.
HolderConfig(k) ==
    LET r == Node(k).service
    IN  [server16 |-> Rloc16(k), seq |-> r.seq, delay |-> r.delay, mlr |-> r.mlr]

\* A node is enabled.
RaceSetEnabled ==
    \E k \in Nodes :
    \E pubOk \in Only(~IsEnabled(Node(k)), BOOLEAN, TRUE) :
        /\ Put(k, SetEnabled(Node(k), NodeEnv(k, pubOk, TRUE, FALSE, 0, 0), TRUE))
        /\ op' = [Op("SetEnabled", k) EXCEPT !.enable = TRUE]
        /\ UNCHANGED << leaderConfig, faults, armed, pendingUpdate,
                        updateOutcome, killed >>

RaceHandleBackboneRouterPrimaryUpdate ==
    \E k \in pendingUpdate :
    \E pubOk \in Only(leaderServer16 = Rloc16(k), BOOLEAN, TRUE),
       wdOk \in Only(leaderServer16 \notin {kShortAddrInvalid, Rloc16(k)},
                      WithdrawOutcomes, TRUE),
       isLeader \in Only(leaderServer16 = kShortAddrInvalid, BOOLEAN, TRUE) :
    \E rnd \in Only(~isLeader, JitterInputs, 0) :
        /\ Put(k, HandleBackboneRouterPrimaryUpdate(
                      Node(k), NodeEnv(k, pubOk, wdOk, isLeader, rnd, 0),
                      leaderConfig))
        /\ op' = [Op("HandleBackboneRouterPrimaryUpdate", k)
                    EXCEPT !.config = leaderConfig]
        /\ pendingUpdate' = pendingUpdate \ {k}
        /\ updateOutcome' = [updateOutcome EXCEPT ![k] = Outcome(Node(k), calls')]
        /\ Refusal
        /\ UNCHANGED << leaderConfig, armed, killed >>

RaceHandleTimeTick ==
    \E k \in Nodes, rsJitter \in {0, 1} :
    \E pubOk \in Only(rsJitter = 0 /\ Node(k).mRegistrationTimeout = 1,
                       BOOLEAN, TRUE) :
        /\ Node(k).tickReceiver
        /\ Put(k, HandleTimeTick(Node(k),
                                  NodeEnv(k, pubOk, TRUE, FALSE, 0, rsJitter)))
        /\ op' = Op("HandleTimeTick", k)
        /\ UNCHANGED << leaderConfig, faults, armed, pendingUpdate,
                        updateOutcome, killed >>

\* A node attaches to the mesh.
RaceAttach ==
    \E k \in Nodes :
        /\ ~Node(k).attached
        /\ IF k = 1
           THEN attached' = TRUE /\ peer' = peer
           ELSE peer' = [peer EXCEPT !.attached = TRUE] /\ attached' = attached
        /\ calls' = << >>
        /\ op' = Op("AttachChange", k)
        /\ UNCHANGED << mState, mMlrTimeout, mReregistrationDelay,
                        mRegistrationTimeout, mSequenceNumber, mIsServiceAdded,
                        mDomainPrefixConfig, service, onMeshPrefixes,
                        tickReceiver, alocInstalled,
                        mBackboneRouterPrimaryAloc, mAllNetworkBackboneRouters,
                        mAllDomainBackboneRouters,
                        meshLocalPrefix, leaderConfig, faults, armed,
                        pendingUpdate, updateOutcome, killed >>

\* The tracker catches up with the store and notifies every node.
TrackerUpdate ==
    \E c \in IF Publishers = {} THEN {NoConfig}
             ELSE { HolderConfig(k) : k \in Publishers } :
        /\ c.server16 # leaderServer16
        /\ leaderConfig' = c
        /\ pendingUpdate' = Nodes
        /\ op' = Op("LeaderChange", 0)
        /\ Commit(Self)
        /\ UNCHANGED << attached, peer, faults, armed, updateOutcome, killed >>

NextRace ==
    \/ RaceSetEnabled
    \/ RaceHandleBackboneRouterPrimaryUpdate
    \/ RaceHandleTimeTick
    \/ RaceAttach
    \/ TrackerUpdate

\* The sequence numbers the two nodes are configured with.
RaceSeqInputs == {0, kSeqInitModulus - 1}

\* Both nodes are constructed, and each is given its sequence number with
\* SetConfig, the second node first; the tracker's first notification is
\* pending.
InitRace ==
    /\ \E seq1 \in InitSequenceNumbers, seq2 \in InitSequenceNumbers :
       \E s1 \in RaceSeqInputs, s2 \in RaceSeqInputs :
           LET aConfig1 == Config(s1, kDefaultRegistrationDelay, kDefaultMlrTimeout)
               aConfig2 == Config(s2, kDefaultRegistrationDelay, kDefaultMlrTimeout)
               e(k) == [rloc16 |-> Rloc16(k), attached |-> FALSE,
                        leaderServer16 |-> kShortAddrInvalid,
                        pubOk |-> TRUE, wdOk |-> TRUE, isLeader |-> FALSE,
                        rnd |-> 0, rsJitter |-> 0]
           IN  /\ peer = Peer(SetConfig(NewLocal(seq2), e(2), aConfig2))
               /\ InitSelf(SetConfig(NewLocal(seq1), e(1), aConfig1))
               /\ op = [Op("SetConfig", 1) EXCEPT !.config = aConfig1]
    /\ attached = FALSE
    /\ leaderConfig = NoConfig
    /\ faults = MaxFaults
    /\ armed = NotArmed
    /\ pendingUpdate = Nodes
    /\ updateOutcome = NoOutcome
    /\ killed = FALSE

SpecRace == InitRace /\ [][NextRace]_vars

(***************************************************************************)
(* Reading the log of calls.                                               *)
(***************************************************************************)
Calls(cs, name) == { i \in DOMAIN cs : cs[i].call = name }

Signals(cs, event) == { i \in Calls(cs, "Signal") : cs[i].mode = event }

Attempts(cs, aMode) == { i \in Calls(cs, "AddService") : cs[i].mode = aMode }

(***************************************************************************)
(* C1.  Enable(true) on a Disabled instance sets the role to Secondary,    *)
(* then calls AddOnMeshPrefix for the stored domain prefix if and only if  *)
(* one is stored, then attempts registration in DecideBasedOnState mode.   *)
(* Enable(true) on a Secondary or Primary instance and Enable(false) on a  *)
(* Disabled one change no state and make no call.                          *)
(***************************************************************************)
C1_Enabling ==
    /\ mState' = kStateSecondary
    /\ Signals(calls', kEventThreadBackboneRouterStateChanged) = {1}
    /\ Calls(calls', "AddOnMeshPrefix")
         = IF mDomainPrefixConfig > 0 THEN {2} ELSE {}
    /\ mDomainPrefixConfig > 0 => calls'[2].args = << mDomainPrefixConfig >>
    /\ Attempts(calls', kDecideBasedOnState) = {Len(calls')}
    /\ Attempts(calls', kForceRegistration) = {}
    /\ \A i \in Calls(calls', "ServiceAdd") :
           i > (IF mDomainPrefixConfig > 0 THEN 2 ELSE 1)

C1_Step ==
    op'.name = "SetEnabled" =>
        IF op'.enable /\ mState = kStateDisabled THEN C1_Enabling
        ELSE IF op'.enable = (mState # kStateDisabled)
        THEN Self' = Self /\ calls' = << >>
        ELSE TRUE

C1_EnableContract == [][C1_Step]_vars

\* An enable that mirrored a stored prefix, on an attached node.
C1_Witness ==
    /\ op.name = "SetEnabled" /\ op.enable
    /\ mState = kStateSecondary
    /\ Calls(calls, "AddOnMeshPrefix") # {}
    /\ Calls(calls, "ServiceAdd") # {}

(***************************************************************************)
(* C2.  Reset() on a Primary instance applies the sequence-number          *)
(* increment exactly once, emits one local-config-changed notification     *)
(* and leaves the instance Secondary; on a Secondary instance it leaves    *)
(* the sequence number and the role unchanged and only withdraws the       *)
(* service; on a Disabled instance it changes nothing and makes no         *)
(* withdraw call.                                                          *)
(***************************************************************************)
WithdrawOnly(cs) ==
    /\ Calls(cs, "ServiceRemove") = {1}
    /\ \A i \in DOMAIN cs : cs[i].call \in {"ServiceRemove", "HandleServerDataUpdated"}

C2_Step ==
    op'.name = "Reset" =>
        CASE mState = kStatePrimary ->
                /\ mSequenceNumber' = SeqIncrease(mSequenceNumber)
                /\ Cardinality(Signals(calls', kEventThreadBackboneRouterLocalChanged)) = 1
                /\ mState' = kStateSecondary
                /\ Calls(calls', "ServiceRemove") = {1}
          [] mState = kStateSecondary ->
                /\ mSequenceNumber' = mSequenceNumber
                /\ mState' = kStateSecondary
                /\ WithdrawOnly(calls')
                /\ [Self EXCEPT !.service = NoService, !.mIsServiceAdded = FALSE]
                     = [Self' EXCEPT !.service = NoService, !.mIsServiceAdded = FALSE]
          [] mState = kStateDisabled ->
                /\ Self' = Self
                /\ calls' = << >>

C2_ResetContract == [][C2_Step]_vars

\* A Reset that demoted a Primary whose sequence number wrapped to 0.
C2_Witness ==
    /\ op.name = "Reset"
    /\ mState = kStateSecondary
    /\ Signals(calls, kEventThreadBackboneRouterLocalChanged) # {}
    /\ Signals(calls, kEventThreadBackboneRouterStateChanged) # {}
    /\ mSequenceNumber = 0

(***************************************************************************)
(* C3.  An enabled, attached instance whose published flag is false, on a  *)
(* leader update naming itself as holder, adopts the reported              *)
(* reregistration delay and MLR timeout, sets its sequence number to the   *)
(* increment of the reported one, emits local-config-changed, attempts a   *)
(* ForceRegistration publish (also when the leader tracker reports a       *)
(* confirmed holder) and keeps its role with no role-changed event.  The   *)
(* same update while the published flag is true makes it Primary, with a   *)
(* role-changed event when it was Secondary.                               *)
(***************************************************************************)
C3_Restore ==
    /\ mReregistrationDelay' = op'.config.delay
    /\ mMlrTimeout' = op'.config.mlr
    /\ mSequenceNumber' = SeqIncrease(op'.config.seq)
    /\ Cardinality(Signals(calls', kEventThreadBackboneRouterLocalChanged)) = 1
    /\ Cardinality(Attempts(calls', kForceRegistration)) = 1
    /\ Attempts(calls', kDecideBasedOnState) = {}
    /\ Cardinality(Calls(calls', "ServiceAdd")) = 1
    /\ \A i \in Calls(calls', "ServiceAdd") :
           /\ calls'[i].args = << mSequenceNumber', mReregistrationDelay', mMlrTimeout' >>
           /\ mIsServiceAdded' = (calls'[i].error = kErrorNone)
    /\ mState' = mState
    /\ mState' = kStateSecondary
    /\ Signals(calls', kEventThreadBackboneRouterStateChanged) = {}

C3_Promote ==
    /\ mState' = kStatePrimary
    /\ Cardinality(Signals(calls', kEventThreadBackboneRouterStateChanged))
         = IF mState = kStateSecondary THEN 1 ELSE 0
    /\ Calls(calls', "AddService") = {}

C3_Step ==
    ( /\ op'.name = "HandleBackboneRouterPrimaryUpdate"
      /\ op'.config.server16 = SelfRloc16
      /\ mState # kStateDisabled /\ attached )
    => IF ~mIsServiceAdded THEN C3_Restore ELSE C3_Promote

C3_RestoreThenPrimary == [][C3_Step]_vars

\* A forced registration made while the tracker records the other node,
\* restoring the reported sequence number 255 as 128.
C3_Witness ==
    /\ op.name = "HandleBackboneRouterPrimaryUpdate"
    /\ op.config.server16 = SelfRloc16
    /\ op.config.seq = 255 /\ mSequenceNumber = 128
    /\ Attempts(calls, kForceRegistration) # {}
    /\ leaderServer16 = PeerRloc16
    /\ mIsServiceAdded
    /\ mState = kStateSecondary

(***************************************************************************)
(* C6.  A leader update with the invalid short address as holder, on an    *)
(* enabled and attached instance, sets RegistrationTimeout to exactly 1    *)
(* when the node is the leader and to 1 plus the drawn jitter, a value in  *)
(* 1 .. 1 + jitter bound, otherwise, and registers with the tick source;   *)
(* the new value replaces the pending countdown, so RegistrationTimeout    *)
(* never exceeds 1 + jitter bound.                                         *)
(***************************************************************************)
C6_Step ==
    ( /\ op'.name = "HandleBackboneRouterPrimaryUpdate"
      /\ op'.config.server16 = kShortAddrInvalid
      /\ mState # kStateDisabled /\ attached )
    => /\ Calls(calls', "IsLeader") = {1}
       /\ IF calls'[1].args = << 1 >>
          THEN /\ mRegistrationTimeout' = 1
               /\ Calls(calls', "GetUint16InRange") = {}
          ELSE /\ Calls(calls', "GetUint16InRange") = {2}
               /\ calls'[2].args[1] \in 0..kDefaultRegistrationJitter
               /\ mRegistrationTimeout' = 1 + calls'[2].args[1]
       /\ mRegistrationTimeout' \in 1..(1 + kDefaultRegistrationJitter)
       /\ tickReceiver'
       /\ Calls(calls', "RegisterReceiver") = {Len(calls')}

C6_VacancyArms ==
    /\ [](mRegistrationTimeout \in 0..(1 + kDefaultRegistrationJitter))
    /\ [][C6_Step]_vars

\* A vacancy handled by a node that is not the leader, with the largest jitter.
C6_Witness ==
    /\ op.name = "HandleBackboneRouterPrimaryUpdate"
    /\ op.config.server16 = kShortAddrInvalid
    /\ Calls(calls, "GetUint16InRange") # {}
    /\ mRegistrationTimeout = 1 + kDefaultRegistrationJitter
    /\ tickReceiver

(***************************************************************************)
(* C8.  AddService returns InvalidState without calling the store's Add    *)
(* when the role is Disabled or the node is not attached; in               *)
(* DecideBasedOnState mode also when the leader tracker records a holder   *)
(* other than this node; in ForceRegistration mode the holder is not       *)
(* looked at.  The record handed to the store carries the current          *)
(* sequence number, reregistration delay and MLR timeout.                  *)
(* (AddService changes none of mState, attached, leaderServer16 and no     *)
(* handler changes them, or the three fields, after calling it, so they    *)
(* are read in the state the handler leaves.)                              *)
(***************************************************************************)
C8_Refused(aMode) ==
    \/ mState = kStateDisabled
    \/ ~attached
    \/ /\ aMode = kDecideBasedOnState
       /\ HasPrimary(leaderServer16)
       /\ leaderServer16 # SelfRloc16

C8_AddServiceGuard ==
    /\ Cardinality(Calls(calls, "AddService")) <= 1
    /\ Cardinality(Calls(calls, "ServiceAdd")) <= Cardinality(Calls(calls, "AddService"))
    /\ \A i \in Calls(calls, "AddService") :
          IF C8_Refused(calls[i].mode)
          THEN /\ calls[i].error = kErrorInvalidState
               /\ Calls(calls, "ServiceAdd") = {}
          ELSE /\ Cardinality(Calls(calls, "ServiceAdd")) = 1
               /\ \A j \in Calls(calls, "ServiceAdd") :
                     /\ j < i
                     /\ calls[j].args
                          = << mSequenceNumber, mReregistrationDelay, mMlrTimeout >>
                     /\ calls[i].error = calls[j].error
                     /\ calls[j].error = kErrorNone =>
                            service = [present |-> TRUE, seq |-> mSequenceNumber,
                                       delay |-> mReregistrationDelay,
                                       mlr |-> mMlrTimeout]

\* A DecideBasedOnState attempt refused only because another node is the holder.
C8_Witness ==
    /\ mState # kStateDisabled /\ attached
    /\ leaderServer16 = PeerRloc16
    /\ \E i \in Attempts(calls, kDecideBasedOnState) :
           calls[i].error = kErrorInvalidState

(***************************************************************************)
(* C9.  The role never moves from Disabled to Primary in one operation:    *)
(* Primary is entered only from Secondary, by a leader update naming this  *)
(* node as holder while its service is published.  A Primary to Secondary  *)
(* step occurs only in Reset(), called directly or by a leader update that *)
(* reports another node as holder.                                         *)
(***************************************************************************)
C9_Step ==
    /\ (mState' = kStatePrimary /\ mState # kStatePrimary) =>
           /\ mState = kStateSecondary
           /\ op'.name = "HandleBackboneRouterPrimaryUpdate"
           /\ op'.config.server16 = SelfRloc16
           /\ mIsServiceAdded
    /\ (mState = kStatePrimary /\ mState' = kStateSecondary) =>
           /\ \/ op'.name = "Reset"
              \/ /\ op'.name = "HandleBackboneRouterPrimaryUpdate"
                 /\ op'.config.server16 \notin {kShortAddrInvalid, SelfRloc16}
           /\ mSequenceNumber' = SeqIncrease(mSequenceNumber)
           /\ Signals(calls', kEventThreadBackboneRouterLocalChanged) # {}
           /\ Calls(calls', "ServiceRemove") = {1}

C9_RoleTransitions == [][C9_Step]_vars

\* A Primary demoted by a leader update that names the other node.
C9_Witness ==
    /\ op.name = "HandleBackboneRouterPrimaryUpdate"
    /\ op.config.server16 = PeerRloc16
    /\ mState = kStateSecondary
    /\ Calls(calls, "RemoveUnicastAddress") # {}

(***************************************************************************)
(* C7.  SetConfig returns InvalidArgs for every configuration with         *)
(* reregistrationDelay < 1, with 2 * reregistrationDelay >= mlrTimeout,    *)
(* or (outside reference-device mode) with mlrTimeout outside              *)
(* kMinMlrTimeout .. kMaxMlrTimeout; then the stored sequence number,      *)
(* reregistration delay and MLR timeout are unchanged, no notification is  *)
(* emitted and no registration is attempted.  An accepted configuration    *)
(* that differs in a field is stored, emits the notification and attempts  *)
(* registration in DecideBasedOnState mode; one equal to the stored        *)
(* configuration does neither.                                             *)
(***************************************************************************)
C7_Rejected(c) ==
    \/ c.delay < 1
    \/ 2 * c.delay >= c.mlr
    \/ ~ReferenceDevice /\ (c.mlr < kMinMlrTimeout \/ c.mlr > kMaxMlrTimeout)

C7_Stored == << mSequenceNumber, mReregistrationDelay, mMlrTimeout >>

C7_Step ==
    op'.name = "SetConfig" =>
        LET c == op'.config IN
        IF C7_Rejected(c)
        THEN /\ op'.error = kErrorInvalidArgs
             /\ Self' = Self
             /\ calls' = << >>
        ELSE /\ op'.error = kErrorNone
             /\ C7_Stored' = << c.seq, c.delay, c.mlr >>
             /\ IF C7_Stored # << c.seq, c.delay, c.mlr >>
                THEN /\ Signals(calls', kEventThreadBackboneRouterLocalChanged) = {1}
                     /\ Attempts(calls', kDecideBasedOnState) = {Len(calls')}
                     /\ Attempts(calls', kForceRegistration) = {}
                ELSE /\ Self' = Self
                     /\ calls' = << >>

C7_SetConfigValidation == [][C7_Step]_vars

\* A configuration refused only because 2 * delay equals the timeout, on
\* an instance that had stored another configuration before.
C7_Witness ==
    /\ op.name = "SetConfig"
    /\ op.error = kErrorInvalidArgs
    /\ op.config.delay >= 1
    /\ op.config.mlr \in kMinMlrTimeout..kMaxMlrTimeout
    /\ 2 * op.config.delay = op.config.mlr
    /\ mReregistrationDelay # kDefaultRegistrationDelay

(***************************************************************************)
(* C10.  Across Enable, SetDomainPrefix and RemoveDomainPrefix calls       *)
(* (network data accepting every add and remove) the domain prefixes this  *)
(* instance has mirrored into network data are {stored prefix} when the    *)
(* instance is enabled and a prefix is stored, and none otherwise.         *)
(* Enable(false) and Enable(true) keep the stored prefix, which            *)
(* GetDomainPrefix returns.                                                *)
(***************************************************************************)
C10_Mirror ==
    onMeshPrefixes = IF mState # kStateDisabled /\ mDomainPrefixConfig > 0
                     THEN {mDomainPrefixConfig} ELSE {}

C10_Step ==
    /\ op'.name = "SetEnabled" => mDomainPrefixConfig' = mDomainPrefixConfig
    /\ op'.name = "GetDomainPrefix" =>
           /\ op'.prefix = mDomainPrefixConfig
           /\ op'.error = IF mDomainPrefixConfig > 0 THEN kErrorNone ELSE kErrorNotFound

C10_PrefixMirror == [](C10_Mirror) /\ [][C10_Step]_vars

\* A disable that removed the mirror of a prefix that stays stored.
C10_Witness ==
    /\ op.name = "SetEnabled" /\ ~op.enable
    /\ mState = kStateDisabled
    /\ mDomainPrefixConfig > 0
    /\ Calls(calls, "RemoveOnMeshPrefix") # {}
    /\ onMeshPrefixes = {}

(***************************************************************************)
(* C5.  After the countdown is armed with n >= 1 and not armed again, the  *)
(* HandleTick() calls made while the pending role-selection jitter is      *)
(* zero count it down: after k <= n of them RegistrationTimeout is n - k,  *)
(* and they made one registration attempt in all if k = n and none if      *)
(* k < n.  The n-th call makes that attempt, in DecideBasedOnState mode,   *)
(* and unregisters from the tick source; the earlier ones do neither.      *)
(***************************************************************************)
C5_Counted ==
    armed.n > 0 =>
        /\ armed.ticks <= armed.n
        /\ mRegistrationTimeout = armed.n - armed.ticks
        /\ armed.attempts = IF armed.ticks = armed.n THEN 1 ELSE 0
        /\ tickReceiver = (armed.ticks < armed.n)

C5_Step ==
    ( /\ op'.name = "HandleTimeTick"
      /\ armed.n > 0 /\ armed.ticks < armed.n
      /\ calls'[1].args = << 0 >> )
    => IF armed'.ticks = armed.n
       THEN /\ Cardinality(Attempts(calls', kDecideBasedOnState)) = 1
            /\ Attempts(calls', kForceRegistration) = {}
            /\ Calls(calls', "UnregisterReceiver") = {Len(calls')}
       ELSE /\ Calls(calls', "AddService") = {}
            /\ Calls(calls', "UnregisterReceiver") = {}

C5_TickCountdown == [](C5_Counted) /\ [][C5_Step]_vars

\* The third tick after arming with 3 made the one attempt and unregistered.
C5_Witness ==
    /\ op.name = "HandleTimeTick"
    /\ armed = [n |-> 3, ticks |-> 3, attempts |-> 1]
    /\ Attempts(calls, kDecideBasedOnState) # {}
    /\ Calls(calls, "ServiceAdd") # {}
    /\ Calls(calls, "UnregisterReceiver") # {}
    /\ mRegistrationTimeout = 0

C4_Converged ==
    /\ (pendingUpdate = {} /\ leaderServer16 # kShortAddrInvalid) =>
           \A k \in Publishers :
               Rloc16(k) = leaderServer16 \/ updateOutcome[k] = "Refused"
    /\ (\A k \in Nodes : Node(k).mState = kStatePrimary) => pendingUpdate # {}

C4_Step ==
    \A k \in Nodes :
        /\ ( /\ op'.name = "HandleBackboneRouterPrimaryUpdate" /\ op'.node = k
             /\ op'.config.server16 \notin {kShortAddrInvalid, Rloc16(k)}
             /\ IsEnabled(Node(k)) /\ Node(k).attached )
           => /\ Calls(calls', "ServiceRemove") = {1}
              /\ Node(k)'.mState = kStateSecondary
              /\ IF calls'[1].error = kErrorNoBufs
                 THEN /\ Node(k).service.present
                      /\ Node(k)'.service = Node(k).service
                      /\ Node(k)'.mIsServiceAdded = Node(k).mIsServiceAdded
                      /\ updateOutcome'[k] = "Refused"
                 ELSE /\ ~Node(k)'.service.present
                      /\ ~Node(k)'.mIsServiceAdded
                      /\ updateOutcome'[k] = "Handled"
        /\ ( /\ op'.node = k
             /\ \E i \in Calls(calls', "ServiceAdd") : calls'[i].error = kErrorNone
             /\ Attempts(calls', kDecideBasedOnState) # {} )
           => leaderServer16 \in {kShortAddrInvalid, Rloc16(k)}

C11_Step ==
    /\ op'.name = "RemoveDomainPrefix" =>
           IF op'.prefix = 0
           THEN /\ op'.error = kErrorInvalidArgs
                /\ Self' = Self /\ calls' = << >>
           ELSE IF op'.prefix # mDomainPrefixConfig
           THEN /\ op'.error = kErrorNotFound
                /\ Self' = Self /\ calls' = << >>
           ELSE /\ op'.error = kErrorNone
                /\ mDomainPrefixConfig' = 0
                /\ Calls(calls', "RemoveOnMeshPrefix")
                     = IF mState # kStateDisabled THEN {1} ELSE {}
                /\ Len(calls') = IF mState # kStateDisabled THEN 1 ELSE 0
                /\ \A i \in DOMAIN calls' : calls'[i].args = << op'.prefix >>
                /\ [Self EXCEPT !.mDomainPrefixConfig = 0, !.onMeshPrefixes = {}]
                     = [Self' EXCEPT !.onMeshPrefixes = {}]
    /\ ( /\ op'.name = "GetDomainPrefix"
         /\ op.name = "RemoveDomainPrefix" /\ op.error = kErrorNone )
       => op'.error = kErrorNotFound

C11_RemoveDomainPrefix == [][C11_Step]_vars

\* An enabled instance removed its stored prefix and the mirror of it.
C11_Witness ==
    /\ op.name = "RemoveDomainPrefix" /\ op.error = kErrorNone
    /\ op.prefix > 0
    /\ mState # kStateDisabled
    /\ Calls(calls, "RemoveOnMeshPrefix") # {}
    /\ mDomainPrefixConfig = 0

(***************************************************************************)
(* C12.  The sequence-number increment maps 126 and 127 to 0, 254 and 255  *)
(* to 128 and every other 8-bit value s to s + 1; so for every s in        *)
(* 0..255 the result is in the half-range of s (below 128 iff s is) and    *)
(* is never 127 or 255.                                                    *)
(***************************************************************************)
C12_Step ==
    op'.name = "SequenceNumberIncrease" =>
        LET s == mSequenceNumber
            r == mSequenceNumber'
        IN  /\ r \in 0..255
            /\ s \in {126, 127} => r = 0
            /\ s \in {254, 255} => r = 128
            /\ s \notin {126, 127, 254, 255} => r = s + 1
            /\ (r < 128) = (s < 128)
            /\ r \notin {127, 255}

C12_SequenceIncrement == [][C12_Step]_vars

\* The increment of 255: 128 is the result of 254 and 255 only.
C12_Witness ==
    /\ op.name = "SequenceNumberIncrease"
    /\ mSequenceNumber = 128

(***************************************************************************)
(* C13.  A role-changed notification is emitted exactly when the role      *)
(* changes: an operation that changes the role emits one role-changed      *)
(* event, and an operation that leaves the role as it was emits none (a    *)
(* leader update naming this node on an instance that is already Primary,  *)
(* for one).  No operation changes the role more than once.                *)
(***************************************************************************)
C13_Step ==
    Cardinality(Signals(calls', kEventThreadBackboneRouterStateChanged))
      = IF mState' # mState THEN 1 ELSE 0

C13_RoleChangedEvents == [][C13_Step]_vars

\* A leader update naming this node, handled by an attached instance that
\* was Primary already: it made no call at all.
C13_Witness ==
    /\ op.name = "HandleBackboneRouterPrimaryUpdate"
    /\ op.config.server16 = SelfRloc16
    /\ attached
    /\ mState = kStatePrimary
    /\ calls = << >>

(***************************************************************************)
(* C14.  A HandleTick() made while the mesh-routing collaborator reports   *)
(* a non-zero router selection jitter does not decrement                   *)
(* RegistrationTimeout and attempts no registration: it changes no state,  *)
(* and with a countdown pending it makes no call but the jitter query, so  *)
(* the countdown stays armed at its value and the instance stays           *)
(* registered with the tick source for as long as the jitter is non-zero.  *)
(* (With the countdown at 0 such a tick still calls UnregisterReceiver.)   *)
(***************************************************************************)
C14_Step ==
    ( /\ op'.name = "HandleTimeTick"
      /\ calls'[1].call = "GetRouterSelectionJitterTimeout"
      /\ calls'[1].args # << 0 >> )
    => /\ mRegistrationTimeout' = mRegistrationTimeout
       /\ Calls(calls', "AddService") = {}
       /\ Calls(calls', "ServiceAdd") = {}
       /\ Self' = Self
       /\ armed' = armed
       /\ IF mRegistrationTimeout > 0
          THEN Len(calls') = 1
          ELSE Calls(calls', "UnregisterReceiver") = {2} /\ Len(calls') = 2

C14_JitterFreezesCountdown == [][C14_Step]_vars

\* A countdown armed with 3 and counted down once, then a tick made
\* while the jitter is not zero: the countdown is still 2.
C14_Witness ==
    /\ op.name = "HandleTimeTick"
    /\ calls[1].args = << 1 >>
    /\ armed.n = 3 /\ armed.ticks = 1
    /\ mRegistrationTimeout = 2
    /\ tickReceiver

(***************************************************************************)
(* C15.  As claimed: on a leader update reporting another node as holder,  *)
(* the instance runs Reset() (seen by the Withdraw call Reset makes on an  *)
(* enabled instance) only if its published flag is set; when Reset() runs  *)
(* the instance ends not Primary with its service record withdrawn, and    *)
(* its sequence number is incremented only if it was Primary.              *)
(***************************************************************************)
C15_OtherHolder ==
    /\ op'.name = "HandleBackboneRouterPrimaryUpdate"
    /\ op'.config.server16 \notin {kShortAddrInvalid, SelfRloc16}

C15_ResetRan == Calls(calls', "ServiceRemove") # {}

C15_ResetEffect ==
    /\ mState' # kStatePrimary
    /\ ~service'.present
    /\ mSequenceNumber' = IF mState = kStatePrimary
                          THEN SeqIncrease(mSequenceNumber)
                          ELSE mSequenceNumber

C15_ClaimedStep ==
    (C15_OtherHolder /\ C15_ResetRan) => (mIsServiceAdded /\ C15_ResetEffect)

C15_ResetOnlyIfPublished == [][C15_ClaimedStep]_vars

(***************************************************************************)
(* C15, amended.  On a leader update reporting another node as holder, an  *)
(* enabled and attached instance runs Reset() whether or not its           *)
(* published flag is set; with the flag clear the Withdraw call Reset      *)
(* makes returns NotFound and nothing changes.  When Reset() runs the      *)
(* instance ends not Primary, and its sequence number is incremented only  *)
(* if it was Primary; its service record is withdrawn and its flag         *)
(* cleared if the store accepts the Withdraw, and both stay as they were   *)
(* if the store refuses it.  A Disabled or detached instance does not run  *)
(* Reset().                                                                *)
(***************************************************************************)
C15_Step ==
    C15_OtherHolder =>
        IF mState # kStateDisabled /\ attached
        THEN /\ Calls(calls', "ServiceRemove") = {1}
             /\ calls'[1].error \in IF mIsServiceAdded
                                     THEN {kErrorNone, kErrorNoBufs}
                                     ELSE {kErrorNotFound}
             /\ ~mIsServiceAdded => Self' = Self /\ Len(calls') = 1
             /\ mState' # kStatePrimary
             /\ mSequenceNumber' = IF mState = kStatePrimary
                                   THEN SeqIncrease(mSequenceNumber)
                                   ELSE mSequenceNumber
             /\ IF calls'[1].error = kErrorNoBufs
                THEN service' = service /\ mIsServiceAdded' = mIsServiceAdded
                ELSE ~service'.present /\ ~mIsServiceAdded'
        ELSE Self' = Self /\ calls' = << >>

C15_ResetOnOtherHolder == [][C15_Step]_vars

\* An update naming the other node, handled by an enabled and attached
\* instance whose registration had been refused by the store: Reset made
\* its Withdraw call, which found no record.
C15_Witness ==
    /\ op.name = "HandleBackboneRouterPrimaryUpdate"
    /\ op.config.server16 = PeerRloc16
    /\ mState = kStateSecondary /\ attached
    /\ Len(calls) = 1
    /\ calls[1].call = "ServiceRemove" /\ calls[1].error = kErrorNotFound
    /\ ~mIsServiceAdded

(***************************************************************************)
(* C16.  The published flag follows the outcome of the store calls: it     *)
(* becomes true only in an operation whose Publish call succeeded and      *)
(* false only in one whose Withdraw call succeeded; an operation whose     *)
(* Publish or Withdraw call failed (the Withdraw of an absent record       *)
(* included) leaves the flag and the record as they were and sends no      *)
(* NotifyServerDataChanged, which follows each successful call and no      *)
(* other.  So, this instance being the only writer of its record, the      *)
(* flag is true in every reachable state iff the record is in the store.   *)
(***************************************************************************)
C16_Succeeded(cs, name) == { i \in Calls(cs, name) : cs[i].error = kErrorNone }

C16_FlagIsRecord == mIsServiceAdded = service.present

C16_Step ==
    LET adds    == C16_Succeeded(calls', "ServiceAdd")
        removes == C16_Succeeded(calls', "ServiceRemove")
        notes   == Calls(calls', "HandleServerDataUpdated")
    IN  /\ (~mIsServiceAdded /\ mIsServiceAdded') => adds # {}
        /\ (mIsServiceAdded /\ ~mIsServiceAdded') => removes # {}
        /\ adds # {} => mIsServiceAdded' /\ removes = {}
        /\ removes # {} => ~mIsServiceAdded' /\ adds = {}
        /\ (adds = {} /\ removes = {}) =>
               /\ mIsServiceAdded' = mIsServiceAdded
               /\ service' = service
        /\ notes = { i + 1 : i \in adds \cup removes }

C16_FlagMatchesStore == [](C16_FlagIsRecord) /\ [][C16_Step]_vars

\* The store refused to withdraw the record of an instance being disabled:
\* the instance is Disabled with its flag set and its record in the store.
C16_Witness ==
    /\ op.name = "SetEnabled" /\ ~op.enable
    /\ \E i \in Calls(calls, "ServiceRemove") : calls[i].error = kErrorNoBufs
    /\ Calls(calls, "HandleServerDataUpdated") = {}
    /\ mIsServiceAdded /\ service.present

(***************************************************************************)
(* C17.  In every reachable state where the role is Disabled (the store    *)
(* accepting the Withdraw of a present record) this instance has no        *)
(* service record in the store and its published flag is false.            *)
(* Enable(false) leaves a pending RegistrationTimeout and the tick         *)
(* registration as they are; the tick that brings the countdown to 0       *)
(* while Disabled makes a registration attempt, which fails with           *)
(* InvalidState before the store is called.                                *)
(***************************************************************************)
C17_DisabledClean ==
    mState = kStateDisabled => (~service.present /\ ~mIsServiceAdded)

C17_Step ==
    /\ (op'.name = "SetEnabled" /\ ~op'.enable) =>
           /\ mRegistrationTimeout' = mRegistrationTimeout
           /\ tickReceiver' = tickReceiver
           /\ Calls(calls', "UnregisterReceiver") = {}
    /\ ( /\ op'.name = "HandleTimeTick"
         /\ mState = kStateDisabled
         /\ mRegistrationTimeout = 1
         /\ calls'[1].args = << 0 >> )
       => /\ Cardinality(Calls(calls', "AddService")) = 1
          /\ \A i \in Calls(calls', "AddService") :
                 /\ calls'[i].mode = kDecideBasedOnState
                 /\ calls'[i].error = kErrorInvalidState
          /\ Calls(calls', "ServiceAdd") = {}
          /\ mRegistrationTimeout' = 0

C17_DisabledHasNoRecord == [](C17_DisabledClean) /\ [][C17_Step]_vars

\* A countdown armed before the instance was disabled ran out while it was
\* Disabled and attached: the attempt was refused.
C17_Witness ==
    /\ op.name = "HandleTimeTick"
    /\ mState = kStateDisabled /\ attached
    /\ leaderServer16 = kShortAddrInvalid
    /\ \E i \in Attempts(calls, kDecideBasedOnState) :
           calls[i].error = kErrorInvalidState
    /\ mRegistrationTimeout = 0
    /\ ~service.present

(***************************************************************************)
(* C18.  In every reachable state where the role is Primary the published  *)
(* flag is true: no sequence of Enable, Reset, SetConfig, leader-update    *)
(* and tick events, those where Publish or Withdraw fail included, leaves  *)
(* the instance Primary with the flag false.  An operation that clears     *)
(* the flag ends with the role not Primary.                                *)
(***************************************************************************)
C18_PrimaryIsPublished == mState = kStatePrimary => mIsServiceAdded

C18_Step == (mIsServiceAdded /\ ~mIsServiceAdded') => mState' # kStatePrimary

C18_PrimaryHasFlag == [](C18_PrimaryIsPublished) /\ [][C18_Step]_vars

\* The store refused the Withdraw of a Reset made on a Primary: the flag and
\* the record stayed, and the Reset went on to demote the instance.
C18_Witness ==
    /\ op.name = "Reset"
    /\ \E i \in Calls(calls, "ServiceRemove") : calls[i].error = kErrorNoBufs
    /\ Calls(calls, "RemoveUnicastAddress") # {}
    /\ Signals(calls, kEventThreadBackboneRouterStateChanged) # {}
    /\ mState = kStateSecondary
    /\ mIsServiceAdded /\ service.present

(***************************************************************************)
(* C20.  Between operations the instance is registered with the tick       *)
(* source iff RegistrationTimeout > 0 (this controller being the only one  *)
(* to register it): arming registers with a countdown of at least 1,       *)
(* every HandleTick() that returns with the countdown at 0 unregisters,    *)
(* and no operation brings the countdown to 0, or from 0 to above 0,       *)
(* without the matching unregister or register call.  Only the leader      *)
(* update and the tick change the countdown.                               *)
(***************************************************************************)
C20_Registered == tickReceiver = (mRegistrationTimeout > 0)

C20_Step ==
    /\ Calls(calls', "RegisterReceiver") # {} =>
           /\ mRegistrationTimeout' >= 1
           /\ Calls(calls', "RegisterReceiver") = {Len(calls')}
           /\ Calls(calls', "UnregisterReceiver") = {}
    /\ (op'.name = "HandleTimeTick" /\ mRegistrationTimeout' = 0) =>
           Calls(calls', "UnregisterReceiver") = {Len(calls')}
    /\ Calls(calls', "UnregisterReceiver") # {} => mRegistrationTimeout' = 0
    /\ (mRegistrationTimeout = 0 /\ mRegistrationTimeout' > 0) =>
           Calls(calls', "RegisterReceiver") # {}
    /\ (mRegistrationTimeout > 0 /\ mRegistrationTimeout' = 0) =>
           Calls(calls', "UnregisterReceiver") # {}
    /\ mRegistrationTimeout' # mRegistrationTimeout =>
           op'.name \in {"HandleBackboneRouterPrimaryUpdate", "HandleTimeTick"}

C20_TickRegistration == [](C20_Registered) /\ [][C20_Step]_vars

\* The tick that brought the countdown to 0 made its attempt and then
\* unregistered.
C20_Witness ==
    /\ op.name = "HandleTimeTick"
    /\ calls[1].args = << 0 >>
    /\ Calls(calls, "AddService") # {}
    /\ Calls(calls, "UnregisterReceiver") = {Len(calls)}
    /\ mRegistrationTimeout = 0
    /\ ~tickReceiver

(***************************************************************************)
(* C19.  The Primary ALOC is on the interface (added and not removed       *)
(* since) iff the role is Primary, after any sequence of role changes and  *)
(* ApplyMeshLocalPrefix calls, and it then carries the current mesh-local  *)
(* prefix.  Every AddUnicastAddress is made with the address not on the    *)
(* interface and every RemoveUnicastAddress with it on.                    *)
(* ApplyMeshLocalPrefix on a Primary removes the old address and then      *)
(* adds the one with the new mesh-local prefix; on a Secondary it touches  *)
(* no unicast address; on a Disabled instance it does nothing.             *)
(***************************************************************************)
C19_IsUnicast(c) == c.call \in {"AddUnicastAddress", "RemoveUnicastAddress"}

RECURSIVE C19_Walk(_, _)
C19_Walk(cs, st) ==
    IF cs = << >> THEN st
    ELSE C19_Walk(Tail(cs),
                  IF Head(cs).call = "AddUnicastAddress"
                  THEN [ok |-> st.ok /\ ~st.installed, installed |-> TRUE]
                  ELSE IF Head(cs).call = "RemoveUnicastAddress"
                  THEN [ok |-> st.ok /\ st.installed, installed |-> FALSE]
                  ELSE st)

C19_Installed ==
    /\ alocInstalled = (mState = kStatePrimary)
    /\ alocInstalled => mBackboneRouterPrimaryAloc = meshLocalPrefix

C19_Step ==
    /\ C19_Walk(calls', [ok |-> TRUE, installed |-> alocInstalled])
         = [ok |-> TRUE, installed |-> alocInstalled']
    /\ op'.name = "ApplyMeshLocalPrefix" =>
           /\ meshLocalPrefix' = op'.prefix
           /\ mState' = mState
           /\ CASE mState = kStatePrimary ->
                     LET u == SelectSeq(calls', C19_IsUnicast)
                     IN  /\ Len(u) = 2
                         /\ u[1].call = "RemoveUnicastAddress"
                         /\ u[1].args = << mBackboneRouterPrimaryAloc >>
                         /\ u[2].call = "AddUnicastAddress"
                         /\ u[2].args = << op'.prefix >>
                [] mState = kStateSecondary ->
                     SelectSeq(calls', C19_IsUnicast) = << >>
                [] mState = kStateDisabled ->
                     /\ calls' = << >>
                     /\ Self' = [Self EXCEPT !.meshLocalPrefix = op'.prefix]

C19_AlocIffPrimary == [](C19_Installed) /\ [][C19_Step]_vars

\* A Primary applied another mesh-local prefix: it removed the address
\* with the old prefix and added the one with the new.
C19_Witness ==
    /\ op.name = "ApplyMeshLocalPrefix" /\ op.prefix = 2
    /\ mState = kStatePrimary
    /\ \E i \in Calls(calls, "RemoveUnicastAddress") :
       \E j \in Calls(calls, "AddUnicastAddress") :
           i < j /\ calls[i].args = << 1 >> /\ calls[j].args = << 2 >>
    /\ alocInstalled
    /\ mBackboneRouterPrimaryAloc = 2

====
